---- MODULE Spec2Model ----
(***************************************************************************)
(* The editorial file explorer of the dashboard (initializeFileExplorer):  *)
(* the year / month / day drill-down, its breadcrumb, the content pane     *)
(* and the read / unread toggle with its fire-and-forget PATCH request.    *)
(***************************************************************************)
EXTENDS Integers, Sequences, FiniteSets, Bags, TLC

(***************************************************************************)
(* Bounds of the model.                                                    *)
(***************************************************************************)
\* Longest editorial list the API answers with.
MaxDocs == 2
\* Most status-update requests in flight at once.
MaxPending == 1

(***************************************************************************)
(* JavaScript values.                                                      *)
(***************************************************************************)
\* null / undefined: no string the program handles equals it.
Null == "<null>"

\* ToNumber of a property key / dataset string that is a canonical number.
KeyNum == ("2023" :> 2023) @@ ("2024" :> 2024) @@ ("5" :> 5) @@ ("12" :> 12)

\* String(n) of a number used as a property key.
Str(n) == CHOOSE k \in DOMAIN KeyNum : KeyNum[k] = n

\* Whether a property key is an integer index: those keys are enumerated first,
\* in ascending numeric order, by Object.keys.
IsIndexKey(k) == k \in DOMAIN KeyNum

\* JavaScript truthiness of a dataset value (a string or undefined).
Truthy(v) == v # Null /\ v # ""

\* date.toLocaleString('en-GB', { month: 'long' }) of month number m.
MonthNames == <<"January", "February", "March", "April", "May", "June", "July",
                "August", "September", "October", "November", "December">>

(***************************************************************************)
(* The data the API may answer with.                                       *)
(***************************************************************************)
\* The calendar dates (as the browser's local year, month, day) of editorials.
Dates == { [year |-> 2024, month |-> 3, day |-> 5],
           [year |-> 2024, month |-> 1, day |-> 5],
           [year |-> 2024, month |-> 1, day |-> 12],
           [year |-> 2023, month |-> 1, day |-> 5] }

\* The id and athena_id of the i-th editorial of a response: ids are unique.
DocId(i) == <<"e1", "e2", "e3", "e4", "e5", "e6", "e7", "e8", "e9", "e10">>[i]
AthenaId(i) == <<"a1", "a2", "a3", "a4", "a5", "a6", "a7", "a8", "a9", "a10">>[i]

\* Every editorial list of length n.
EditorialLists(n) ==
    { [i \in 1..n |-> [id |-> DocId(i), athena_id |-> AthenaId(i),
                       date |-> ds[i], is_read |-> rs[i]]] :
        ds \in [1..n -> Dates], rs \in [1..n -> BOOLEAN] }

\* What the editorial-list request may settle with: the request fails (network),
\* or an HTTP response arrives whose status is ok or not and whose body is a JSON
\* array of editorials, some other JSON value, or not JSON at all.
Responses ==
    { [kind |-> "network", ok |-> FALSE, body |-> "none", docs |-> <<>>] }
    \cup { [kind |-> "http", ok |-> o, body |-> b, docs |-> <<>>] :
             o \in BOOLEAN, b \in {"object", "malformed"} }
    \cup { [kind |-> "http", ok |-> o, body |-> "array", docs |-> d] :
             o \in BOOLEAN, d \in UNION { EditorialLists(n) : n \in 0..MaxDocs } }

\* The id of the exam whose daysRemaining the home statistics use.
PrelimsId == "pWySIJBI4yDC6v2YzLlD"

\* What fetchAndProcessExams handed to initializeFileExplorer: null after a failed
\* exam load, or the list of future exams.
FutureExamsChoices ==
    { Null, <<[id |-> PrelimsId, daysRemaining |-> 3]>> }

\* The inputs of the home statistics: the days left to the counted exam, and a
\* loaded list with a given number of unread editorials.
MaxDays == 8
MaxStatDocs == 7

\* Exam lists as fetchAndProcessExams returns them (no exam has a negative
\* daysRemaining, line 49): the counted exam with d days left after another
\* exam, the other exam alone, or none.
OtherExam == [id |-> "otherExam", daysRemaining |-> 1]

StatsExams ==
    { <<>>, <<OtherExam>> }
    \cup { <<OtherExam, [id |-> PrelimsId, daysRemaining |-> d]>> : d \in 0..MaxDays }

\* The editorial lists of n editorials of one day of which the first u are unread.
StatsLists ==
    { [i \in 1..n |-> [id |-> DocId(i), athena_id |-> AthenaId(i),
                       date |-> [year |-> 2024, month |-> 1, day |-> 5],
                       is_read |-> i > u]] :
        n \in 0..MaxStatDocs, u \in 0..MaxStatDocs }

StatsResponses ==
    { [kind |-> "http", ok |-> TRUE, body |-> "array", docs |-> d] : d \in StatsLists }

\* The view handlers that may be pending at once.
MaxViews == 2

\* The PATCH requests that may be on their way to the server at once.
MaxUnapplied == 2

\* The list whose editorials are viewed: MaxDocs unread editorials of one day.
ViewLists ==
    { l \in EditorialLists(MaxDocs) :
        \A i \in 1..MaxDocs : l[i].date = [year |-> 2024, month |-> 1, day |-> 5]
                              /\ ~l[i].is_read }

ViewResponses ==
    { [kind |-> "http", ok |-> TRUE, body |-> "array", docs |-> d] : d \in ViewLists }

\* What GET .../editorials/{docId}/download-link may settle with: the request
\* fails, or a response arrives whose status is ok or not and whose body is a
\* JSON object with a download_url, a JSON object without one, or not JSON. The
\* url names the document it downloads.
LinkResponses(docId) ==
    { [kind |-> "network", ok |-> FALSE, body |-> "none", url |-> Null],
      [kind |-> "http", ok |-> TRUE, body |-> "object", url |-> docId],
      [kind |-> "http", ok |-> TRUE, body |-> "object", url |-> Null],
      [kind |-> "http", ok |-> FALSE, body |-> "object", url |-> Null],
      [kind |-> "http", ok |-> FALSE, body |-> "malformed", url |-> Null] }

\* The text of a response body as gray-matter sees it: its front matter (valid,
\* none, or malformed), the title the front matter gives, and the rest.
DocumentText(docId) ==
    [frontMatter |-> "valid", title |-> "title of " \o docId, subject |-> "subject of " \o docId,
     rest |-> "markdown of " \o docId]
MalformedText(docId) ==
    [frontMatter |-> "malformed", title |-> Null, subject |-> Null,
     rest |-> "markdown of " \o docId]
ErrorPageText ==
    [frontMatter |-> "none", title |-> Null, subject |-> Null, rest |-> "error page"]

\* No body: the request was not answered.
NoText == [frontMatter |-> "none", title |-> Null, subject |-> Null, rest |-> ""]

\* What the fetch of download_url may settle with. A download_url that is
\* undefined makes the request go to the relative URL "undefined", which no
\* document answers.
FileResponses(url) ==
    { [kind |-> "network", ok |-> FALSE, text |-> NoText],
      [kind |-> "http", ok |-> FALSE, text |-> ErrorPageText] }
    \cup IF url = Null THEN {}
         ELSE { [kind |-> "http", ok |-> TRUE, text |-> DocumentText(url)],
                [kind |-> "http", ok |-> TRUE, text |-> MalformedText(url)] }

\* Exam dates: instants counted in half days from today's midnight, so that an
\* exam may fall within a day. MaxExamTime is the latest one.
MaxExamTime == 6
HalfDaysPerDay == 2

\* The exams the API may list: at most one per id, in any order, each at an
\* instant from a day before today on.
ExamIds == {PrelimsId, "otherExam"}

ExamLists ==
    {<<>>}
    \cup { <<[id |-> i, date |-> d]>> : i \in ExamIds, d \in (0 - HalfDaysPerDay)..MaxExamTime }
    \cup { l \in { <<[id |-> i, date |-> d], [id |-> j, date |-> e]>> :
                      i \in ExamIds, j \in ExamIds,
                      d \in (0 - HalfDaysPerDay)..MaxExamTime,
                      e \in (0 - HalfDaysPerDay)..MaxExamTime } :
             l[1].id # l[2].id }

\* What GET /api/v1/exams may settle with.
ExamResponses ==
    { [kind |-> "network", ok |-> FALSE, exams |-> <<>>],
      [kind |-> "http", ok |-> FALSE, exams |-> <<>>] }
    \cup { [kind |-> "http", ok |-> TRUE, exams |-> l] : l \in ExamLists }

\* Math.floor(timeDiff / (1000 * 60 * 60 * 24)), today's midnight being instant 0.
DaysRemaining(date) == date \div HalfDaysPerDay

\* fetchAndProcessExams: null when the request fails or the status is not ok;
\* otherwise each exam with its daysRemaining, those with a negative one dropped,
\* in the order of the response.
FetchAndProcessExams(resp) ==
    IF resp.kind = "network" \/ ~resp.ok THEN Null
    ELSE LET mapped == [n \in 1..Len(resp.exams) |->
                           [id |-> resp.exams[n].id, date |-> resp.exams[n].date,
                            daysRemaining |-> DaysRemaining(resp.exams[n].date)]]
         IN SelectSeq(mapped, LAMBDA exam : exam.daysRemaining >= 0)

VARIABLES
    pc,               \* where initializeFileExplorer stands: "fetching" at its await,
                      \* "ready" once it returned, "rejected" once it threw
    futureExams,      \* its argument
    allEditorials,    \* the fetched list; buckets refer to its elements by index
    editorialsByDate, \* year -> month -> day -> bucket, as JavaScript objects
    currentState,     \* { level, year, month }
    list,             \* the children of #explorer-list
    breadcrumb,       \* the children of #breadcrumb
    content,          \* what #content-area shows
    requests,         \* the PATCH requests in flight, a bag
    lastEvent,        \* history: the last handler that ran past its guards (one
                      \* that returned at a guard leaves no trace), and how it ended
    modal,            \* #editorial-modal: whether it is visible, its title, meta
                      \* line and body
    views,            \* the view handlers that have not returned, in the order they
                      \* started: each one's document, the await it stands at, the
                      \* download_url it read, and (history) how many download-link
                      \* and file requests it has sent
    server            \* the API server: for each athena id, whether it has applied
                      \* a PATCH since the list was fetched, and the is_read of the
                      \* last one it applied

vars == <<pc, futureExams, allEditorials, editorialsByDate, currentState, list,
          breadcrumb, content, requests, lastEvent, modal, views, server>>

\* The server before any PATCH request has reached it.
AthenaIds == { AthenaId(i) : i \in 1..MaxDocs }
NoneApplied == [a \in AthenaIds |-> [applied |-> FALSE, is_read |-> FALSE]]

(***************************************************************************)
(* JavaScript objects: the entries in insertion order.                     *)
(***************************************************************************)
HasKey(obj, k) == \E i \in 1..Len(obj) : obj[i].key = k

\* obj[k], or Null (undefined) when obj has no such key.
Get(obj, k) ==
    IF HasKey(obj, k)
    THEN obj[CHOOSE i \in 1..Len(obj) : obj[i].key = k].val
    ELSE Null

\* obj[k] = v
Put(obj, k, v) ==
    IF HasKey(obj, k)
    THEN [i \in 1..Len(obj) |-> IF obj[i].key = k THEN [key |-> k, val |-> v] ELSE obj[i]]
    ELSE Append(obj, [key |-> k, val |-> v])

RECURSIVE SortKeys(_, _)
\* Array.prototype.sort of distinct numeric strings; desc: (a, b) => b - a,
\* otherwise (a, b) => a - b.
SortKeys(keys, desc) ==
    IF Len(keys) <= 1 THEN keys
    ELSE LET first(i) == \A j \in 1..Len(keys) :
                            IF desc THEN KeyNum[keys[i]] >= KeyNum[keys[j]]
                                    ELSE KeyNum[keys[i]] <= KeyNum[keys[j]]
             p == CHOOSE i \in 1..Len(keys) : first(i)
             rest == [j \in 1..(Len(keys) - 1) |-> IF j < p THEN keys[j] ELSE keys[j + 1]]
         IN <<keys[p]>> \o SortKeys(rest, desc)

\* Object.keys(obj): integer keys in ascending order, then the others in
\* insertion order.
ObjectKeys(obj) ==
    LET ks == [i \in 1..Len(obj) |-> obj[i].key]
    IN SortKeys(SelectSeq(ks, IsIndexKey), FALSE)
       \o SelectSeq(ks, LAMBDA k : ~IsIndexKey(k))

(***************************************************************************)
(* fetchData: the grouping of the fetched list.                            *)
(***************************************************************************)
\* new Date(e.date).getFullYear(), the month's long name, and getDate().
GetFullYear(date) == date.year
GetMonthName(date) == MonthNames[date.month]
GetDate(date) == date.day

\* Mutant of GroupOne: the editorial is put at the front of its day's bucket.
GroupOnePrepending(byDate, docs, i) ==
    LET year == Str(GetFullYear(docs[i].date))
        month == GetMonthName(docs[i].date)
        day == Str(GetDate(docs[i].date))
        months == IF HasKey(byDate, year) THEN Get(byDate, year) ELSE <<>>
        days == IF HasKey(months, month) THEN Get(months, month) ELSE <<>>
        bucket == IF HasKey(days, day) THEN Get(days, day) ELSE <<>>
    IN Put(byDate, year, Put(months, month, Put(days, day, <<i>> \o bucket)))

\* One turn of editorials.forEach: the three `if (!...)` creations, then the push
\* of editorial i (a reference to allEditorials[i]) onto its day's bucket.
GroupOne(byDate, docs, i) ==
    LET year == Str(GetFullYear(docs[i].date))
        month == GetMonthName(docs[i].date)
        day == Str(GetDate(docs[i].date))
        months == IF HasKey(byDate, year) THEN Get(byDate, year) ELSE <<>>
        days == IF HasKey(months, month) THEN Get(months, month) ELSE <<>>
        bucket == IF HasKey(days, day) THEN Get(days, day) ELSE <<>>
    IN Put(byDate, year, Put(months, month, Put(days, day, Append(bucket, i))))

RECURSIVE GroupFrom(_, _, _)
\* editorials.forEach from editorial i on.
GroupFrom(byDate, docs, i) ==
    IF i > Len(docs) THEN byDate
    ELSE GroupFrom(GroupOne(byDate, docs, i), docs, i + 1)

\* editorialsByDate[year][month][day]: found is FALSE when a key is missing on the
\* way (the expression is undefined, or throws on an undefined parent).
Bucket(byDate, year, month, day) ==
    IF /\ HasKey(byDate, year)
       /\ HasKey(Get(byDate, year), month)
       /\ HasKey(Get(Get(byDate, year), month), day)
    THEN [found |-> TRUE, docs |-> Get(Get(Get(byDate, year), month), day)]
    ELSE [found |-> FALSE, docs |-> <<>>]

(***************************************************************************)
(* The content pane.                                                       *)
(***************************************************************************)
NoStats == [days |-> 0, total |-> 0, read |-> 0, unread |-> 0, perDayTenths |-> 0]

\* The page's own markup, before any script wrote the pane.
StaticContent == [kind |-> "static", stats |-> NoStats, items |-> <<>>]

\* contentArea.innerHTML = ''
ClearedContent == [kind |-> "cleared", stats |-> NoStats, items |-> <<>>]

\* Mutant of EditorialItem: the toggle button names the status the editorial has.
EditorialItemNamingStatus(e) ==
    [docId |-> e.id, athenaId |-> e.athena_id,
     statusText |-> IF e.is_read THEN "Read" ELSE "Unread",
     toggleText |-> IF e.is_read THEN "Mark as Read" ELSE "Mark as Unread"]

\* The .editorial-item div of one editorial: its status text, and its two buttons
\* with their data-doc-id and data-athena-id.
EditorialItem(e) ==
    [docId |-> e.id, athenaId |-> e.athena_id,
     statusText |-> IF e.is_read THEN "Read" ELSE "Unread",
     toggleText |-> IF e.is_read THEN "Mark as Unread" ELSE "Mark as Read"]

\* renderEditorialsForDay(day): the pane is cleared, then filled with the items of
\* the day's bucket of the current year and month, if there is one.
RenderEditorialsForDay(byDate, docs, state, day) ==
    LET b == Bucket(byDate, state.year, state.month, day)
    IN IF ~b.found THEN ClearedContent
       ELSE [kind |-> "bucket", stats |-> NoStats,
             items |-> [k \in 1..Len(b.docs) |-> EditorialItem(docs[b.docs[k]])]]

\* Mutant of ToFixed1: the quotient is cut after its first decimal.
ToFixed1Truncating(unread, days) == (10 * unread) \div days

\* (unreadCount / totalDaysAvailable).toFixed(1), in tenths: the tenth nearest to
\* the quotient, the larger one when the quotient is halfway between two. (With a
\* divisor below 20 a halfway quotient ends in .25 or .75, which a double holds
\* exactly, so that toFixed sees the tie and takes the larger tenth.)
ToFixed1(unread, days) == (20 * unread + days) \div (2 * days)

\* Mutant of RenderHomeStats: the unread count is the number with is_read set.
RenderHomeStatsCountingRead(exams, docs) ==
    IF exams = Null THEN [threw |-> TRUE, content |-> ClearedContent]
    ELSE LET prelims == SelectSeq(exams, LAMBDA e : e.id = PrelimsId)
             days == IF Len(prelims) > 0 THEN prelims[1].daysRemaining ELSE 0
             total == Len(docs)
             unread == Len(SelectSeq(docs, LAMBDA e : e.is_read))
         IN [threw |-> FALSE,
             content |-> [kind |-> "stats", items |-> <<>>,
                          stats |-> [days |-> days, total |-> total,
                                     read |-> total - unread, unread |-> unread,
                                     perDayTenths |-> IF days > 0 THEN ToFixed1(unread, days)
                                                      ELSE 0]]]

\* renderHomeStats: the pane is cleared; futureExams.find throws when futureExams
\* is null; otherwise the five statistics are written.
RenderHomeStats(exams, docs) ==
    IF exams = Null THEN [threw |-> TRUE, content |-> ClearedContent]
    ELSE LET prelims == SelectSeq(exams, LAMBDA e : e.id = PrelimsId)
             days == IF Len(prelims) > 0 THEN prelims[1].daysRemaining ELSE 0
             total == Len(docs)
             unread == Len(SelectSeq(docs, LAMBDA e : ~e.is_read))
         IN [threw |-> FALSE,
             content |-> [kind |-> "stats", items |-> <<>>,
                          stats |-> [days |-> days, total |-> total,
                                     read |-> total - unread, unread |-> unread,
                                     perDayTenths |-> IF days > 0 THEN ToFixed1(unread, days)
                                                      ELSE 0]]]

(***************************************************************************)
(* render: the item list and the breadcrumb.                               *)
(***************************************************************************)
\* Mutant of LoadingItem: the placeholder is an item of the explorer.
LoadingItemAsExplorerItem ==
    [class |-> "explorer-item", action |-> Null, year |-> Null, month |-> Null,
     day |-> Null, text |-> "Loading Editorials...", selected |-> FALSE]

\* The <li> the page shows while the list is being fetched.
LoadingItem ==
    [class |-> "loading-message", action |-> Null, year |-> Null, month |-> Null,
     day |-> Null, text |-> "Loading Editorials...", selected |-> FALSE]

\* An <li class="explorer-item"> with one dataset entry.
YearItem(k) ==
    [class |-> "explorer-item", action |-> Null, year |-> k, month |-> Null,
     day |-> Null, text |-> k, selected |-> FALSE]
MonthItem(k) ==
    [class |-> "explorer-item", action |-> Null, year |-> Null, month |-> k,
     day |-> Null, text |-> k, selected |-> FALSE]

\* String(day).padStart(2, '0')
PadStart2(k) == IF KeyNum[k] < 10 THEN "0" \o k ELSE k

DayItem(k) ==
    [class |-> "explorer-item", action |-> Null, year |-> Null, month |-> Null,
     day |-> k, text |-> PadStart2(k), selected |-> FALSE]

\* Mutant of ActiveCrumb: the span of the current level is a clickable crumb.
ActiveCrumbClickable(label) == [class |-> "crumb", label |-> label, level |-> "years"]

\* A breadcrumb <span>: class crumb with its data-level, or crumb-active.
Crumb(label, level) == [class |-> "crumb", label |-> label, level |-> level]
ActiveCrumb(label) == [class |-> "crumb-active", label |-> label, level |-> Null]

\* Mutant of MonthKeys: the months of every year are listed, not those of `year`.
MonthKeysOfEveryYear(byDate, year) ==
    LET all[i \in 0..Len(byDate)] ==
            IF i = 0 THEN <<>>
            ELSE all[i - 1] \o SelectSeq(ObjectKeys(byDate[i].val),
                                         LAMBDA k : \A n \in 1..Len(all[i - 1]) : all[i - 1][n] # k)
    IN all[Len(byDate)]

\* The keys render lists at each level, in the order it lists them.
YearKeys(byDate) == SortKeys(ObjectKeys(byDate), TRUE)
MonthKeys(byDate, year) == ObjectKeys(Get(byDate, year))
DayKeys(byDate, year, month) == SortKeys(ObjectKeys(Get(Get(byDate, year), month)), FALSE)

\* render(): what it leaves in the list, the breadcrumb and the content pane, and
\* whether it threw: renderHomeStats throwing, or Object.keys of an undefined
\* entry of editorialsByDate, in both cases with the list already cleared and the
\* breadcrumb already written. At a level other than years the content pane is
\* not touched.
Render(state, byDate, exams, docs, crumbs, pane) ==
    IF state.level = "years" THEN
        LET home == RenderHomeStats(exams, docs)
            keys == YearKeys(byDate)
        IN [threw |-> home.threw,
            breadcrumb |-> <<ActiveCrumb("Editorials")>>,
            content |-> home.content,
            list |-> IF home.threw THEN <<>>
                     ELSE [i \in 1..Len(keys) |-> YearItem(keys[i])]]
    ELSE IF state.level = "months" THEN
        IF ~HasKey(byDate, state.year)
        THEN [threw |-> TRUE, content |-> pane, list |-> <<>>,
              breadcrumb |-> <<Crumb("home", "years"), ActiveCrumb(state.year)>>]
        ELSE
        LET keys == MonthKeys(byDate, state.year)
        IN [threw |-> FALSE,
            breadcrumb |-> <<Crumb("home", "years"), ActiveCrumb(state.year)>>,
            content |-> pane,
            list |-> [i \in 1..Len(keys) |-> MonthItem(keys[i])]]
    ELSE IF state.level = "dates" THEN
        IF ~(HasKey(byDate, state.year) /\ HasKey(Get(byDate, state.year), state.month))
        THEN [threw |-> TRUE, content |-> pane, list |-> <<>>,
              breadcrumb |-> <<Crumb("home", "years"), Crumb(state.year, "months"),
                               ActiveCrumb(state.month)>>]
        ELSE
        LET keys == DayKeys(byDate, state.year, state.month)
        IN [threw |-> FALSE,
            breadcrumb |-> <<Crumb("home", "years"), Crumb(state.year, "months"),
                             ActiveCrumb(state.month)>>,
            content |-> pane,
            list |-> [i \in 1..Len(keys) |-> DayItem(keys[i])]]
    ELSE [threw |-> FALSE, breadcrumb |-> crumbs, content |-> pane, list |-> <<>>]

(***************************************************************************)
(* The click handlers' effect on each piece of state.                      *)
(***************************************************************************)
\* Mutant of ListClickState: the year branch forgets `currentState.year = year`.
ListClickStateYearNotSet(state, target) ==
    IF Truthy(target.year) THEN [state EXCEPT !.level = "months"]
    ELSE IF Truthy(target.month) THEN [state EXCEPT !.level = "dates", !.month = target.month]
    ELSE state

\* The list click handler's change of currentState for the clicked item: the
\* branches on dataset.action, dataset.year and dataset.month, in that order.
ListClickState(state, target) ==
    IF target.action = "back" THEN
        IF state.level = "dates" THEN [state EXCEPT !.level = "months", !.month = Null]
        ELSE IF state.level = "months" THEN [state EXCEPT !.level = "years", !.year = Null]
        ELSE state
    ELSE IF Truthy(target.year) THEN [state EXCEPT !.level = "months", !.year = target.year]
    ELSE IF Truthy(target.month) THEN [state EXCEPT !.level = "dates", !.month = target.month]
    ELSE state

\* Whether the list click handler takes a branch that ends in render().
ListClickRenders(target) ==
    target.action = "back" \/ Truthy(target.year) \/ Truthy(target.month)

\* Mutant of SelectItem: the items selected before keep the class.
SelectItemKeepingOthers(items, i) == [items EXCEPT ![i].selected = TRUE]

\* Mutant of SelectItem: the list is rendered again after the click, which drops
\* the class just set.
SelectItemThenRender(items, i) ==
    [j \in 1..Len(items) |-> [items[j] EXCEPT !.selected = FALSE]]

\* The selection logic of the day branch: every .explorer-item.selected loses
\* the class, then the clicked item gets it.
SelectItem(items, i) ==
    [j \in 1..Len(items) |-> [items[j] EXCEPT !.selected = (j = i)]]

\* Mutant of CrumbState: going back to months forgets `currentState.month = null`.
CrumbStateMonthKept(state, level) ==
    IF level = "years" THEN [level |-> "years", year |-> Null, month |-> Null]
    ELSE IF level = "months" THEN [state EXCEPT !.level = "months"]
    ELSE state

\* Mutant of CrumbState: every crumb resets to years.
CrumbStateAlwaysHome(state, level) == [level |-> "years", year |-> Null, month |-> Null]

\* The breadcrumb click handler's change of currentState for data-level `level`.
CrumbState(state, level) ==
    IF level = "years" THEN [level |-> "years", year |-> Null, month |-> Null]
    ELSE IF level = "months" THEN [state EXCEPT !.level = "months", !.month = Null]
    ELSE state

\* document.querySelector('#explorer-list .explorer-item.selected'): the index of
\* the first such item, 0 when there is none.
SelectedIndex(items) ==
    IF \E i \in 1..Len(items) : items[i].class = "explorer-item" /\ items[i].selected
    THEN CHOOSE i \in 1..Len(items) :
            /\ items[i].class = "explorer-item" /\ items[i].selected
            /\ \A j \in 1..(i - 1) : ~(items[j].class = "explorer-item" /\ items[j].selected)
    ELSE 0

\* Mutant of ToggleTarget: the editorial is looked up in allEditorials, with no
\* regard to the selected day.
ToggleTargetInAllEditorials(items, byDate, docs, state, docId) ==
    IF \E n \in 1..Len(docs) : docs[n].id = docId
    THEN CHOOSE n \in 1..Len(docs) : docs[n].id = docId
    ELSE 0

\* The toggle branch's lookup: the index in allEditorials of itemToUpdate, the
\* first editorial of the selected day's bucket whose id is the button's
\* data-doc-id; 0 when one of the three guards returns.
ToggleTarget(items, byDate, docs, state, docId) ==
    LET sel == SelectedIndex(items)
        b == IF sel = 0 THEN [found |-> FALSE, docs |-> <<>>]
             ELSE Bucket(byDate, state.year, state.month, items[sel].day)
        hits == SelectSeq(b.docs, LAMBDA n : docs[n].id = docId)
    IN IF sel = 0 \/ ~b.found \/ Len(hits) = 0 THEN 0 ELSE hits[1]

\* Mutant of SetRead: every editorial gets the new status.
SetReadOfAll(docs, n, newStatus) ==
    [i \in 1..Len(docs) |-> [docs[i] EXCEPT !.is_read = newStatus]]

\* itemToUpdate.is_read = newStatus, seen through every reference to the object.
SetRead(docs, n, newStatus) == [docs EXCEPT ![n].is_read = newStatus]

\* The PATCH request of a toggle: its URL's athena id and its body.
PatchRequest(athenaId, newStatus) == [athenaId |-> athenaId, is_read |-> newStatus]

(***************************************************************************)
(* The initial state: initializeFileExplorer up to `await fetchData()`.    *)
(***************************************************************************)
(***************************************************************************)
(* The modal and the view handler.                                         *)
(***************************************************************************)
\* The modal as the page's markup has it: hidden, nothing written by the script.
StaticModal == [visible |-> FALSE, title |-> Null, meta |-> <<>>, body |-> Null]

\* The text of p.editorial-title of the item of an editorial.
EditorialTitle(docId) == "file of " \o docId

\* matter(mdContent): it throws on front matter it cannot parse; without front
\* matter data is empty and content is the whole text.
Matter(text) ==
    [threw |-> text.frontMatter = "malformed",
     data |-> [title |-> text.title, subject |-> text.subject],
     content |-> text.rest]

\* marked.parse(content)
MarkedParse(md) == "html of " \o md

\* The spans written to #modal-meta: one per field of subject, source and tags
\* the front matter has (the texts here have a subject at most).
MetaSpans(data) == IF Truthy(data.subject) THEN <<"Subject: " \o data.subject>> ELSE <<>>

\* The four writes at the start of the view branch.
ModalLoading == [visible |-> TRUE, title |-> "Loading...", meta |-> <<>>, body |-> ""]

\* Mutant of ModalError: the catch block shows the modal again.
ModalErrorShowing(m) ==
    [m EXCEPT !.visible = TRUE,
              !.title = "Error",
              !.body = "Could not load the editorial content. Please try again."]

\* The catch block: title and body are written, the meta line is left alone.
ModalError(m) ==
    [m EXCEPT !.title = "Error",
              !.body = "Could not load the editorial content. Please try again."]

\* Steps 3 and 4 of the view branch on the text fetched for the button of
\* editorial docId.
ModalAfterParse(m, docId, text) ==
    LET parsed == Matter(text)
    IN IF parsed.threw THEN ModalError(m)
       ELSE [m EXCEPT !.title = IF Truthy(parsed.data.title) THEN parsed.data.title
                                 ELSE EditorialTitle(docId),
                      !.meta = MetaSpans(parsed.data),
                      !.body = MarkedParse(parsed.content)]

\* Every response a download-link request and a file request may settle with.
LinkResponseChoices == UNION { LinkResponses(DocId(i)) : i \in 1..MaxDocs }
FileResponseChoices ==
    UNION { FileResponses(u) : u \in {Null} \cup { DocId(i) : i \in 1..MaxDocs } }

\* A view handler at its first await.
ViewStarted(docId) ==
    [doc |-> docId, stage |-> "link", url |-> Null, links |-> 1, files |-> 0]

\* The pending handlers once the n-th has returned.
ViewEnded(vs, n) == SubSeq(vs, 1, n - 1) \o SubSeq(vs, n + 1, Len(vs))

Init ==
    /\ pc = "fetching"
    /\ futureExams \in FutureExamsChoices
    /\ allEditorials = <<>>
    /\ editorialsByDate = <<>>
    /\ currentState = [level |-> "years", year |-> Null, month |-> Null]
    /\ list = <<LoadingItem>>
    /\ breadcrumb = <<>>
    /\ content = StaticContent
    /\ requests = EmptyBag
    /\ lastEvent = [op |-> "init", result |-> "ok"]
    /\ modal = StaticModal
    /\ views = <<>>
    /\ server = NoneApplied

(***************************************************************************)
(* fetchData settles, and initializeFileExplorer goes on to its end.       *)
(***************************************************************************)
\* fetch rejects (network), response.json() rejects (a body that is not JSON), or
\* editorials.forEach throws (a JSON value that is no array): fetchData rejects,
\* nothing catches it, and initializeFileExplorer ends there. Otherwise the
\* list is stored and grouped, whatever response.ok is, and render() runs; when
\* render() throws, initializeFileExplorer ends there too, before the content
\* pane's listener is registered.
\* (FetchFailure names which of the rejections it was, for the history.)
FetchFailure(resp) ==
    IF resp.kind = "network" THEN "networkError"
    ELSE IF resp.body = "malformed" THEN "notJson"
    ELSE IF resp.ok THEN "notAnArray" ELSE "httpErrorBody"

FetchDataSettle(resp) ==
    /\ pc = "fetching"
    /\ IF resp.kind = "network" \/ resp.body # "array"
       THEN /\ pc' = "rejected"
            /\ lastEvent' = [op |-> "fetchData", result |-> FetchFailure(resp)]
            /\ UNCHANGED <<allEditorials, editorialsByDate, list, breadcrumb, content>>
       ELSE LET byDate == GroupFrom(editorialsByDate, resp.docs, 1)
                r == Render(currentState, byDate, futureExams, resp.docs, breadcrumb, content)
            IN /\ allEditorials' = resp.docs
               /\ editorialsByDate' = byDate
               /\ list' = r.list
               /\ breadcrumb' = r.breadcrumb
               /\ content' = r.content
               /\ pc' = IF r.threw THEN "rejected" ELSE "ready"
               /\ lastEvent' = [op |-> "fetchData",
                                 result |-> IF r.threw
                                            THEN IF resp.ok THEN "threw" ELSE "threwDespiteStatus"
                                            ELSE IF resp.ok THEN "ok" ELSE "okDespiteStatus"]
    /\ UNCHANGED <<modal, views, server>>
    /\ UNCHANGED <<futureExams, currentState, requests>>

(***************************************************************************)
(* A click on the i-th child of #explorer-list.                            *)
(***************************************************************************)
ListClick(i) ==
    /\ i \in 1..Len(list)
    /\ LET target == list[i]
       IN IF target.class # "explorer-item"
          THEN UNCHANGED <<currentState, list, breadcrumb, content, lastEvent>>
          ELSE IF ListClickRenders(target)
          THEN LET state == ListClickState(currentState, target)
                   r == Render(state, editorialsByDate, futureExams, allEditorials,
                               breadcrumb, content)
               IN /\ currentState' = state
                  /\ list' = r.list
                  /\ breadcrumb' = r.breadcrumb
                  /\ content' = r.content
                  /\ lastEvent' = [op |-> IF Truthy(target.year) THEN "selectYear"
                                          ELSE IF Truthy(target.month) THEN "selectMonth"
                                          ELSE "listBack",
                                   result |-> IF r.threw THEN "threw" ELSE "ok"]
          ELSE IF Truthy(target.day)
          THEN /\ list' = SelectItem(list, i)
               /\ content' = RenderEditorialsForDay(editorialsByDate, allEditorials,
                                                    currentState, target.day)
               /\ lastEvent' = [op |-> "selectDay", result |-> "ok"]
               /\ UNCHANGED <<currentState, breadcrumb>>
          ELSE UNCHANGED <<currentState, list, breadcrumb, content, lastEvent>>
    /\ UNCHANGED <<modal, views, server>>
    /\ UNCHANGED <<pc, futureExams, allEditorials, editorialsByDate, requests>>

(***************************************************************************)
(* A click on the j-th child of #breadcrumb.                               *)
(***************************************************************************)
\* A click on a crumb-active span returns at once. For data-level years the
\* state is reset and renderHomeStats runs before render(); when it throws,
\* the handler ends with the pane cleared and no render().
BreadcrumbClick(j) ==
    /\ j \in 1..Len(breadcrumb)
    /\ LET target == breadcrumb[j]
           state == CrumbState(currentState, target.level)
           home == RenderHomeStats(futureExams, allEditorials)
           r == Render(state, editorialsByDate, futureExams, allEditorials,
                       breadcrumb, content)
       IN IF target.class # "crumb"
          THEN UNCHANGED <<currentState, list, breadcrumb, content, lastEvent>>
          ELSE IF target.level = "years" /\ home.threw
          THEN /\ currentState' = state
               /\ content' = home.content
               /\ lastEvent' = [op |-> "goHome", result |-> "threw"]
               /\ UNCHANGED <<list, breadcrumb>>
          ELSE /\ currentState' = state
               /\ list' = r.list
               /\ breadcrumb' = r.breadcrumb
               /\ content' = r.content
               /\ lastEvent' = [op |-> IF target.level = "years" THEN "goHome" ELSE "back",
                                result |-> IF r.threw THEN "threw" ELSE "ok"]
    /\ UNCHANGED <<modal, views, server>>
    /\ UNCHANGED <<pc, futureExams, allEditorials, editorialsByDate, requests>>

(***************************************************************************)
(* A click on the toggle button of the k-th item of the content pane.      *)
(***************************************************************************)
\* The listener exists once initializeFileExplorer has run to its end. The
\* request is sent, the editorial is updated and the day's bucket rendered
\* again in this one handler; nothing waits for the request.
ToggleClickWithin(k, pending) ==
    /\ pc = "ready"
    /\ k \in 1..Len(content.items)
    /\ LET button == content.items[k]
           sel == SelectedIndex(list)
           n == ToggleTarget(list, editorialsByDate, allEditorials, currentState,
                             button.docId)
       IN IF n = 0
          THEN UNCHANGED <<allEditorials, content, requests, lastEvent>>
          ELSE LET newStatus == ~allEditorials[n].is_read
                   docs == SetRead(allEditorials, n, newStatus)
               IN /\ BagCardinality(requests) < pending
                  /\ requests' = requests (+) SetToBag({PatchRequest(button.athenaId, newStatus)})
                  /\ allEditorials' = docs
                  /\ content' = RenderEditorialsForDay(editorialsByDate, docs, currentState,
                                                       IF sel = 0 THEN Null ELSE list[sel].day)
                  /\ lastEvent' = [op |-> "toggle", result |-> "ok"]
    /\ UNCHANGED <<modal, views, server>>
    /\ UNCHANGED <<pc, futureExams, editorialsByDate, currentState, list, breadcrumb>>

\* The click, with at most MaxPending requests awaiting their answer.
ToggleClick(k) == ToggleClickWithin(k, MaxPending)

(***************************************************************************)
(* A PATCH request in flight settles.                                      *)
(***************************************************************************)
PatchOutcomes == {"ok", "httpError", "networkError"}

\* Mutant of PatchSettle: a request that did not succeed rolls the editorial back.
PatchSettleWithRollback(req, outcome) ==
    /\ req \in BagToSet(requests)
    /\ outcome \in {"ok", "httpError", "networkError"}
    /\ requests' = requests (-) SetToBag({req})
    /\ allEditorials' =
          IF outcome = "ok" THEN allEditorials
          ELSE [i \in 1..Len(allEditorials) |->
                   IF allEditorials[i].athena_id = req.athenaId
                   THEN [allEditorials[i] EXCEPT !.is_read = ~req.is_read]
                   ELSE allEditorials[i]]
    /\ UNCHANGED <<modal, views, server>>
    /\ UNCHANGED <<pc, futureExams, editorialsByDate, currentState, list, breadcrumb,
                   content, lastEvent>>

\* The promise of fetch(...PATCH...) has no handler: whether the response is a
\* success, an HTTP error, or the request fails, no code of the page runs.
PatchSettle(req, outcome) ==
    /\ req \in BagToSet(requests)
    /\ outcome \in PatchOutcomes
    /\ requests' = requests (-) SetToBag({req})
    /\ UNCHANGED <<modal, views, server>>
    /\ UNCHANGED <<pc, futureExams, allEditorials, editorialsByDate, currentState,
                   list, breadcrumb, content, lastEvent>>

Next ==
    \/ \E resp \in Responses : FetchDataSettle(resp)
    \/ \E i \in 1..(MaxDocs + 2) : ListClick(i)
    \/ \E j \in 1..3 : BreadcrumbClick(j)
    \/ \E k \in 1..(MaxDocs + 1) : ToggleClick(k)
    \/ \E req \in BagToSet(requests), outcome \in PatchOutcomes : PatchSettle(req, outcome)

Spec == Init /\ [][Next]_vars

(***************************************************************************)
(* The view button, its two requests, and the clicks on the modal.         *)
(***************************************************************************)
\* A click on the View button of the k-th item of the content pane: the modal
\* is shown with its loading title and the handler waits for the download link.
ViewClick(k) ==
    /\ pc = "ready"
    /\ k \in 1..Len(content.items)
    /\ Len(views) < MaxViews
    /\ modal' = ModalLoading
    /\ views' = Append(views, ViewStarted(content.items[k].docId))
    /\ lastEvent' = [op |-> "view", result |-> "ok", doc |-> content.items[k].docId]
    /\ UNCHANGED <<server, pc, futureExams, allEditorials, editorialsByDate, currentState,
                   list,
                   breadcrumb, content, requests>>

\* Mutant of LinkSettle: a rejected download-link request is sent again.
LinkSettleRetrying(n, resp) ==
    /\ n \in 1..Len(views)
    /\ views[n].stage = "link"
    /\ resp \in LinkResponses(views[n].doc)
    /\ IF resp.kind = "network"
       THEN /\ modal' = modal
            /\ views' = [views EXCEPT ![n].links = @ + 1]
       ELSE IF resp.body = "malformed"
       THEN /\ modal' = ModalError(modal)
            /\ views' = ViewEnded(views, n)
       ELSE /\ modal' = modal
            /\ views' = [views EXCEPT ![n].stage = "file", ![n].url = resp.url,
                                      ![n].files = @ + 1]
    /\ UNCHANGED <<server, pc, futureExams, allEditorials, editorialsByDate, currentState,
                   list,
                   breadcrumb, content, requests, lastEvent>>

\* The download-link request of the n-th handler settles. A rejected fetch and a
\* body that is not JSON end in the catch block; otherwise download_url is read
\* off the body, whatever the status, and the handler fetches it.
LinkSettle(n, resp) ==
    /\ n \in 1..Len(views)
    /\ views[n].stage = "link"
    /\ resp \in LinkResponses(views[n].doc)
    /\ IF resp.kind = "network" \/ resp.body = "malformed"
       THEN /\ modal' = ModalError(modal)
            /\ views' = ViewEnded(views, n)
       ELSE /\ modal' = modal
            /\ views' = [views EXCEPT ![n].stage = "file", ![n].url = resp.url,
                                      ![n].files = @ + 1]
    /\ UNCHANGED <<server, pc, futureExams, allEditorials, editorialsByDate, currentState,
                   list,
                   breadcrumb, content, requests, lastEvent>>

\* Mutant of FileSettle: the text is written only when no later handler is
\* pending (a newer click cancels the older handler's write).
FileSettleUnlessSuperseded(n, resp) ==
    /\ n \in 1..Len(views)
    /\ views[n].stage = "file"
    /\ resp \in FileResponses(views[n].url)
    /\ modal' = IF n < Len(views) THEN modal
                ELSE IF resp.kind = "network" THEN ModalError(modal)
                ELSE ModalAfterParse(modal, views[n].doc, resp.text)
    /\ views' = ViewEnded(views, n)
    /\ UNCHANGED <<server, pc, futureExams, allEditorials, editorialsByDate, currentState,
                   list,
                   breadcrumb, content, requests, lastEvent>>

\* The fetch of download_url of the n-th handler settles. A rejected fetch ends in
\* the catch block; otherwise the body's text, whatever the status, is parsed and
\* written to the modal.
FileSettle(n, resp) ==
    /\ n \in 1..Len(views)
    /\ views[n].stage = "file"
    /\ resp \in FileResponses(views[n].url)
    /\ modal' = IF resp.kind = "network" THEN ModalError(modal)
                ELSE ModalAfterParse(modal, views[n].doc, resp.text)
    /\ views' = ViewEnded(views, n)
    /\ UNCHANGED <<server, pc, futureExams, allEditorials, editorialsByDate, currentState,
                   list,
                   breadcrumb, content, requests, lastEvent>>

\* The elements of the visible modal a click may land on.
ModalTargets == {"modal-backdrop", "modal-close-btn", "modal-body"}

ModalClick(target) ==
    /\ modal.visible
    /\ target \in ModalTargets
    /\ modal' = IF target \in {"modal-backdrop", "modal-close-btn"}
                THEN [modal EXCEPT !.visible = FALSE]
                ELSE modal
    /\ UNCHANGED <<server, pc, futureExams, allEditorials, editorialsByDate, currentState,
                   list,
                   breadcrumb, content, requests, lastEvent, views>>

\* The explorer with the view button, over a loaded list of one day.
InitView ==
    /\ pc = "fetching"
    /\ futureExams \in FutureExamsChoices
    /\ futureExams # Null
    /\ allEditorials = <<>>
    /\ editorialsByDate = <<>>
    /\ currentState = [level |-> "years", year |-> Null, month |-> Null]
    /\ list = <<LoadingItem>>
    /\ breadcrumb = <<>>
    /\ content = StaticContent
    /\ requests = EmptyBag
    /\ lastEvent = [op |-> "init", result |-> "ok"]
    /\ modal = StaticModal
    /\ views = <<>>
    /\ server = NoneApplied

NextView ==
    \/ \E resp \in ViewResponses : FetchDataSettle(resp)
    \/ \E i \in 1..(MaxDocs + 2) : ListClick(i)
    \/ \E j \in 1..3 : BreadcrumbClick(j)
    \/ \E k \in 1..MaxDocs : ViewClick(k)
    \/ \E n \in 1..MaxViews, resp \in LinkResponseChoices : LinkSettle(n, resp)
    \/ \E n \in 1..MaxViews, resp \in FileResponseChoices : FileSettle(n, resp)
    \/ \E target \in ModalTargets : ModalClick(target)

SpecView == InitView /\ [][NextView]_vars

\* The handlers that send requests, and the settling of their requests: the way
\* down to a day, the view button and the toggle button. A button is clicked
\* while fewer than MaxInFlight view handlers and PATCH requests are pending.
MaxInFlight == 2

InFlight == Len(views) + BagCardinality(requests)

NextRequests ==
    \/ \E resp \in ViewResponses : FetchDataSettle(resp)
    \/ \E i \in 1..(MaxDocs + 2) : ListClick(i)
    \/ \E k \in 1..MaxDocs : InFlight < MaxInFlight /\ ViewClick(k)
    \/ \E n \in 1..MaxViews, resp \in LinkResponseChoices : LinkSettle(n, resp)
    \/ \E n \in 1..MaxViews, resp \in FileResponseChoices : FileSettle(n, resp)
    \/ \E k \in 1..(MaxDocs + 1) : InFlight < MaxInFlight /\ ToggleClick(k)
    \/ \E req \in BagToSet(requests), outcome \in PatchOutcomes : PatchSettle(req, outcome)

SpecRequests == InitView /\ [][NextRequests]_vars

(***************************************************************************)
(* The toggle button and the server its PATCH requests reach.              *)
(***************************************************************************)
\* The PATCH requests the toggle button can send.
PatchRequests == { PatchRequest(a, r) : a \in AthenaIds, r \in BOOLEAN }

\* A PATCH request reaches the server, which sets the editorial's is_read to the
\* request's and answers with success; the page has no handler for the answer.
\* The requests are separate fetches, sent without waiting for one another, so
\* they reach the server in any order.
ServerApplies(req) ==
    /\ req \in BagToSet(requests)
    /\ server' = [server EXCEPT ![req.athenaId] = [applied |-> TRUE, is_read |-> req.is_read]]
    /\ requests' = requests (-) SetToBag({req})
    /\ UNCHANGED <<pc, futureExams, allEditorials, editorialsByDate, currentState,
                   list, breadcrumb, content, lastEvent, modal, views>>

NextServer ==
    \/ \E resp \in ViewResponses : FetchDataSettle(resp)
    \/ \E i \in 1..(MaxDocs + 2) : ListClick(i)
    \/ \E k \in 1..(MaxDocs + 1) : ToggleClickWithin(k, MaxUnapplied)
    \/ \E req \in PatchRequests : ServerApplies(req)

SpecServer == InitView /\ [][NextServer]_vars

(***************************************************************************)
(* The page's start: the exam list is fetched, then the explorer is set up. *)
(***************************************************************************)
\* DOMContentLoaded up to `await fetchAndProcessExams()`: nothing of the explorer
\* exists yet (its list is taken as empty, the page's markup not being part of
\* the sources).
InitExams ==
    /\ pc = "awaitingExams"
    /\ futureExams = Null
    /\ allEditorials = <<>>
    /\ editorialsByDate = <<>>
    /\ currentState = [level |-> "years", year |-> Null, month |-> Null]
    /\ list = <<>>
    /\ breadcrumb = <<>>
    /\ content = StaticContent
    /\ requests = EmptyBag
    /\ lastEvent = [op |-> "init", result |-> "ok"]
    /\ modal = StaticModal
    /\ views = <<>>
    /\ server = NoneApplied

\* The exam request settles: futureExams is what fetchAndProcessExams returns, and
\* initializeFileExplorer runs up to its `await fetchData()`.
ExamsSettle(resp) ==
    /\ pc = "awaitingExams"
    /\ futureExams' = FetchAndProcessExams(resp)
    /\ list' = <<LoadingItem>>
    /\ pc' = "fetching"
    /\ lastEvent' = [op |-> "fetchExams",
                     result |-> IF resp.kind = "network" \/ ~resp.ok THEN "failed" ELSE "ok"]
    /\ UNCHANGED <<allEditorials, editorialsByDate, currentState, breadcrumb, content,
                   requests, modal, views, server>>

NextExams == \E resp \in ExamResponses : ExamsSettle(resp)

SpecExams == InitExams /\ [][NextExams]_vars

(***************************************************************************)
(* The first render over the inputs of the home statistics.                *)
(***************************************************************************)
InitStats ==
    /\ pc = "fetching"
    /\ futureExams \in StatsExams
    /\ allEditorials = <<>>
    /\ editorialsByDate = <<>>
    /\ currentState = [level |-> "years", year |-> Null, month |-> Null]
    /\ list = <<LoadingItem>>
    /\ breadcrumb = <<>>
    /\ content = StaticContent
    /\ requests = EmptyBag
    /\ lastEvent = [op |-> "init", result |-> "ok"]
    /\ modal = StaticModal
    /\ views = <<>>
    /\ server = NoneApplied

NextStats == \E resp \in StatsResponses : FetchDataSettle(resp)

SpecStats == InitStats /\ [][NextStats]_vars

(***************************************************************************)
(* Vocabulary of the properties.                                           *)
(***************************************************************************)
YearsState == [level |-> "years", year |-> Null, month |-> Null]

\* The indexes of the list items that carry the selected class.
SelectedItems == { i \in 1..Len(list) : list[i].selected }

\* The keys of a JavaScript object, as a set.
KeySet(obj) == { obj[i].key : i \in 1..Len(obj) }

\* A step of the breadcrumb handler on a clickable crumb of the given level.
CrumbStep(level) ==
    \E j \in 1..Len(breadcrumb) :
        /\ breadcrumb[j].class = "crumb"
        /\ breadcrumb[j].level = level
        /\ BreadcrumbClick(j)

\* A step of the list handler on an item of the given dataset entry.
SelectYearStep == \E i \in 1..Len(list) : Truthy(list[i].year) /\ ListClick(i)
SelectMonthStep == \E i \in 1..Len(list) : Truthy(list[i].month) /\ ListClick(i)

\* The list holds, unselected, exactly one item per key of the level of `state`.
ListShowsLevel(items, state) ==
    LET keys == IF state.level = "years" THEN KeySet(editorialsByDate)
                ELSE IF state.level = "months" THEN KeySet(Get(editorialsByDate, state.year))
                ELSE KeySet(Get(Get(editorialsByDate, state.year), state.month))
        keyOf(it) == IF state.level = "years" THEN it.year
                     ELSE IF state.level = "months" THEN it.month ELSE it.day
    IN /\ Len(items) = Cardinality(keys)
       /\ { keyOf(items[i]) : i \in 1..Len(items) } = keys
       /\ \A i \in 1..Len(items) : items[i].class = "explorer-item" /\ ~items[i].selected

(***************************************************************************)
(* C1. The navigation state has one of three shapes: year is set exactly   *)
(* at the levels months and dates, month is set exactly at the level       *)
(* dates; before the list has loaded it is years with neither set.         *)
(***************************************************************************)
C1_NavigationShape ==
    /\ currentState.level \in {"years", "months", "dates"}
    /\ (currentState.year # Null) <=> (currentState.level \in {"months", "dates"})
    /\ (currentState.month # Null) <=> (currentState.level = "dates")
    /\ (pc = "fetching" => currentState = YearsState)

\* A toggle has run at the level dates, reached through list clicks.
C1_Witness ==
    /\ lastEvent.op = "toggle"
    /\ currentState.level = "dates"
    /\ currentState.year = "2024" /\ currentState.month = "January"

(***************************************************************************)
(* C2. No state refers to a year or month absent from the grouped index:   *)
(* at months the year is a key of editorialsByDate, at dates the month is  *)
(* a key of editorialsByDate[year]; and the only years, months and days a  *)
(* click can select (those of the list items) are keys of the index at     *)
(* the current level, so a selection of any other key changes nothing.     *)
(***************************************************************************)
C2_OnlyExistingKeys ==
    /\ currentState.level \in {"months", "dates"} => HasKey(editorialsByDate, currentState.year)
    /\ currentState.level = "dates" =>
          HasKey(Get(editorialsByDate, currentState.year), currentState.month)
    /\ \A i \in 1..Len(list) :
          /\ Truthy(list[i].year) =>
                currentState.level = "years" /\ HasKey(editorialsByDate, list[i].year)
          /\ Truthy(list[i].month) =>
                /\ currentState.level = "months"
                /\ HasKey(Get(editorialsByDate, currentState.year), list[i].month)
          /\ Truthy(list[i].day) =>
                /\ currentState.level = "dates"
                /\ HasKey(Get(Get(editorialsByDate, currentState.year), currentState.month),
                          list[i].day)

\* A month of a year with two months has been selected.
C2_Witness ==
    /\ lastEvent.op = "selectMonth"
    /\ currentState.level = "dates"
    /\ Cardinality(KeySet(Get(editorialsByDate, currentState.year))) = 2
    /\ Cardinality(KeySet(editorialsByDate)) = 1

(***************************************************************************)
(* C3. The breadcrumb transitions: the crumb of level months (back, at     *)
(* dates) leads to months with the same year and the month cleared; the    *)
(* crumb of level years (back at months, home at any level) leads to years *)
(* with year and month cleared; each is followed by a render of the item   *)
(* list of the new level, and the crumbs are there at months and dates     *)
(* (at years, where the root crumb is the active one, the state is years   *)
(* already).                                                               *)
(***************************************************************************)
C3_CrumbsOffered ==
    /\ currentState.level = "years" => currentState = YearsState
    /\ currentState.level = "months" =>
          \E j \in 1..Len(breadcrumb) :
              breadcrumb[j].class = "crumb" /\ breadcrumb[j].level = "years"
    /\ currentState.level = "dates" =>
          /\ \E j \in 1..Len(breadcrumb) :
                breadcrumb[j].class = "crumb" /\ breadcrumb[j].level = "years"
          /\ \E j \in 1..Len(breadcrumb) :
                breadcrumb[j].class = "crumb" /\ breadcrumb[j].level = "months"

C3_CrumbEffect ==
    /\ CrumbStep("months") =>
          /\ currentState.level = "dates"
          /\ currentState' = [level |-> "months", year |-> currentState.year, month |-> Null]
          /\ ListShowsLevel(list', currentState')
    /\ CrumbStep("years") =>
          /\ currentState' = YearsState
          /\ ListShowsLevel(list', currentState')

C3_BreadcrumbTransitions == []C3_CrumbsOffered /\ [][C3_CrumbEffect]_vars

\* Back from the days of a month whose day had been selected.
C3_Witness ==
    /\ lastEvent = [op |-> "back", result |-> "ok"]
    /\ currentState.level = "months"
    /\ content.kind = "bucket"

(***************************************************************************)
(* C4. The round trip from months: selecting a month of year y and then    *)
(* going back.  As claimed, it ends at years.                              *)
(***************************************************************************)
C4_RoundTripRestoresYears ==
    [][(lastEvent.op = "selectMonth" /\ CrumbStep("months")) => currentState' = YearsState]_vars

(***************************************************************************)
(* C4, amended. A month is selected only at months, and keeps the year; a  *)
(* back right after it ends at months with that same year and the month    *)
(* cleared, the state the month was selected from.                         *)
(***************************************************************************)
C4_RoundTripRestoresMonths ==
    [][/\ SelectMonthStep =>
            /\ currentState.level = "months" /\ currentState.month = Null
            /\ currentState'.level = "dates" /\ currentState'.year = currentState.year
       /\ (lastEvent.op = "selectMonth" /\ CrumbStep("months")) =>
            currentState' = [level |-> "months", year |-> currentState.year, month |-> Null]
      ]_vars

\* Back right after a month was selected: no day was selected in between, so
\* the pane still shows the home statistics.
C4_Witness ==
    /\ lastEvent = [op |-> "back", result |-> "ok"]
    /\ currentState = [level |-> "months", year |-> "2024", month |-> Null]
    /\ content.kind = "stats"

(***************************************************************************)
(* More vocabulary: the toggle.                                            *)
(***************************************************************************)
\* Whether editorial e is dated day `day` of month `month` of year `year`, the
\* keys being those of the index.
DatedOn(e, year, month, day) ==
    /\ Str(GetFullYear(e.date)) = year
    /\ GetMonthName(e.date) = month
    /\ Str(GetDate(e.date)) = day

\* The editorials of the currently selected day's bucket, as indexes of the
\* fetched list; none when no day is selected.
SelectedDayDocs ==
    { n \in 1..Len(allEditorials) :
        \E i \in SelectedItems :
            DatedOn(allEditorials[n], currentState.year, currentState.month, list[i].day) }

\* A step that changes some editorial of the loaded list.
EditorialsChange == pc = "ready" /\ allEditorials' # allEditorials

\* The step changes nothing of editorial n but flips its is_read, and changes
\* no other editorial.
FlipsOnly(n) ==
    allEditorials' = [allEditorials EXCEPT ![n].is_read = ~allEditorials[n].is_read]

(***************************************************************************)
(* C5. A toggle flips is_read of exactly one editorial, one of the         *)
(* selected day's bucket whose id is that of a toggle button shown, and    *)
(* leaves every other editorial, the grouped index, the navigation         *)
(* state, the selection, the item list and the breadcrumb as they were;    *)
(* the content pane shows a document bucket afterwards.  No other step     *)
(* changes an editorial.                                                   *)
(***************************************************************************)
C5_ToggleFrame ==
    [][EditorialsChange =>
        /\ \E n \in SelectedDayDocs :
              /\ FlipsOnly(n)
              /\ \E k \in 1..Len(content.items) : content.items[k].docId = allEditorials[n].id
        /\ UNCHANGED <<editorialsByDate, currentState, list, breadcrumb>>
        /\ content'.kind = "bucket"
        /\ Len(content'.items) = Len(content.items)
      ]_vars

\* A toggle has run on a bucket of two editorials, whose statuses now differ.
C5_Witness ==
    /\ lastEvent.op = "toggle"
    /\ Len(content.items) = 2
    /\ Cardinality(SelectedDayDocs) = 2
    /\ \E n, o \in SelectedDayDocs : allEditorials[n].is_read /\ ~allEditorials[o].is_read

(***************************************************************************)
(* C6. The toggle is optimistic and fire-and-forget: the step that flips   *)
(* is_read is the step that sends the PATCH request (with the new value)   *)
(* and renders the bucket with the new status, the request still being in  *)
(* flight; and the step in which a request settles, whatever its outcome,  *)
(* changes neither an editorial nor anything the page shows.               *)
(***************************************************************************)
C6_OptimisticToggle ==
    [][/\ EditorialsChange =>
            \E n \in 1..Len(allEditorials) :
                /\ FlipsOnly(n)
                /\ requests' = requests (+) SetToBag({[athenaId |-> allEditorials[n].athena_id,
                                                       is_read |-> ~allEditorials[n].is_read]})
                /\ \E k \in 1..Len(content'.items) :
                      /\ content'.items[k].docId = allEditorials[n].id
                      /\ content'.items[k].statusText =
                            IF allEditorials[n].is_read THEN "Unread" ELSE "Read"
       /\ BagCardinality(requests') < BagCardinality(requests) =>
            UNCHANGED <<pc, allEditorials, editorialsByDate, currentState, list,
                        breadcrumb, content>>
      ]_vars

\* The pane shows the new status of an editorial whose request is in flight.
C6_Witness ==
    \E req \in BagToSet(requests) :
        \E n \in 1..Len(allEditorials), k \in 1..Len(content.items) :
            /\ allEditorials[n].athena_id = req.athenaId
            /\ allEditorials[n].is_read = req.is_read
            /\ content.items[k].athenaId = req.athenaId
            /\ content.items[k].statusText = IF req.is_read THEN "Read" ELSE "Unread"

(***************************************************************************)
(* C7. A toggle for an id that no editorial of the selected day's bucket   *)
(* has (no day being selected included) changes nothing and sends no       *)
(* request; so a step that changes an editorial or sends a request is a    *)
(* toggle for an id found there.                                           *)
(***************************************************************************)
FoundInSelectedDay(docId) == \E n \in SelectedDayDocs : allEditorials[n].id = docId

C7_NotFoundNoEffect ==
    [][/\ \A k \in 1..Len(content.items) :
            (ToggleClick(k) /\ ~FoundInSelectedDay(content.items[k].docId)) =>
                UNCHANGED <<allEditorials, requests, content, list, currentState>>
       /\ (EditorialsChange \/ BagCardinality(requests') > BagCardinality(requests)) =>
            \E k \in 1..Len(content.items) :
                ToggleClick(k) /\ FoundInSelectedDay(content.items[k].docId)
      ]_vars

\* Toggle buttons are on the page and no day is selected: the bucket shown is
\* that of a day selected before the list was rendered again.
C7_Witness ==
    /\ pc = "ready"
    /\ content.kind = "bucket" /\ Len(content.items) > 0
    /\ SelectedItems = {}
    /\ lastEvent.op = "selectMonth"

(***************************************************************************)
(* C8. A click on a day item is no level transition: the navigation state  *)
(* and the breadcrumb stay, the list keeps its items (it is not rendered   *)
(* again), the clicked item is the selected one, and the content pane      *)
(* shows the editorials dated that day, in the order of the fetched list.  *)
(***************************************************************************)
DayDocIds(year, month, day) ==
    LET es == SelectSeq(allEditorials, LAMBDA e : DatedOn(e, year, month, day))
    IN [k \in 1..Len(es) |-> es[k].id]

C8_SelectDay ==
    [][\A i \in 1..Len(list) :
          (Truthy(list[i].day) /\ ListClick(i)) =>
              /\ currentState.level = "dates"
              /\ UNCHANGED <<currentState, breadcrumb>>
              /\ Len(list') = Len(list)
              /\ \A j \in 1..Len(list) :
                    [list'[j] EXCEPT !.selected = FALSE] = [list[j] EXCEPT !.selected = FALSE]
              /\ { j \in 1..Len(list') : list'[j].selected } = {i}
              /\ content'.kind = "bucket"
              /\ [k \in 1..Len(content'.items) |-> content'.items[k].docId]
                    = DayDocIds(currentState.year, currentState.month, list[i].day)
      ]_vars

\* The second of two days has been selected.
C8_Witness ==
    /\ lastEvent.op = "selectDay"
    /\ Len(list) = 2 /\ SelectedItems = {2}
    /\ content.kind = "bucket"

(***************************************************************************)
(* C9. At most one item of the list is selected, and after a level change  *)
(* (a year or month selected, back, home) none is.                         *)
(***************************************************************************)
C9_SingleSelection ==
    /\ Cardinality(SelectedItems) <= 1
    /\ lastEvent.op \in {"selectYear", "selectMonth", "back", "goHome"} => SelectedItems = {}

\* One of two days is selected, after a toggle.
C9_Witness ==
    /\ Len(list) = 2
    /\ Cardinality(SelectedItems) = 1
    /\ lastEvent.op = "toggle"

(***************************************************************************)
(* C10. After a failed editorial load (the request failing, a status that  *)
(* is not a success, a body that is no JSON list) the explorer shows an    *)
(* inline error: the list is not left in its loading state and holds no    *)
(* item rendered from the response.                                        *)
(***************************************************************************)
LoadFailed ==
    /\ lastEvent.op = "fetchData"
    /\ lastEvent.result \in {"networkError", "notJson", "notAnArray", "httpErrorBody",
                             "okDespiteStatus", "threwDespiteStatus"}

C10_LoadErrorShownInline ==
    LoadFailed =>
        /\ \E i \in 1..Len(list) : list[i].class = "error-message"
        /\ \A i \in 1..Len(list) : list[i].class \notin {"loading-message", "explorer-item"}

(***************************************************************************)
(* C11. A failed exam load (futureExams is null) does not stop the         *)
(* explorer: once the editorial list has loaded, initializeFileExplorer    *)
(* has run to its end and the list shows the items of the current level    *)
(* (the years, at first), so that navigation is possible.                  *)
(***************************************************************************)
C11_ExplorerSurvivesExamFailure ==
    (/\ futureExams = Null
     /\ lastEvent.op = "fetchData"
     /\ lastEvent.result \in {"ok", "threw"}) =>
        /\ pc = "ready"
        /\ ListShowsLevel(list, currentState)

(***************************************************************************)
(* C13. The load and the grouping complete before the first item list is   *)
(* shown. While fetchData is pending the list holds only the loading       *)
(* placeholder, no crumb is offered and the state is the initial one;      *)
(* whenever the list holds an explorer item, or the state has left Years,  *)
(* the documents are stored and editorialsByDate is their grouping. A step *)
(* taken while the load is pending is the settling of the load or changes  *)
(* nothing.                                                                *)
(***************************************************************************)
HasExplorerItem == \E i \in 1..Len(list) : list[i].class = "explorer-item"

C13_NothingBeforeLoad ==
    /\ pc = "fetching" =>
        /\ ~HasExplorerItem
        /\ breadcrumb = <<>>
        /\ currentState = YearsState
        /\ allEditorials = <<>> /\ editorialsByDate = <<>>
    /\ (HasExplorerItem \/ currentState # YearsState) =>
        /\ pc = "ready"
        /\ allEditorials # <<>>
        /\ editorialsByDate = GroupFrom(<<>>, allEditorials, 1)

C13_LoadThenEvents ==
    [][pc = "fetching" => (pc' # "fetching" \/ UNCHANGED vars)]_vars

C13_LoadBeforeFirstRender == []C13_NothingBeforeLoad /\ C13_LoadThenEvents

C13_Witness ==
    /\ pc = "ready" /\ HasExplorerItem
    /\ lastEvent = [op |-> "fetchData", result |-> "ok"]
    /\ Len(allEditorials) = 2

(***************************************************************************)
(* C14. The grouping is a partition that keeps the order of the list: each *)
(* loaded editorial is in exactly one day bucket, the bucket of the year,  *)
(* month and day of its date, and within a bucket the editorials stand in  *)
(* the order they have in the loaded list.                                 *)
(***************************************************************************)
\* Every place of every bucket: <<year, month, day, position>>.
BucketPlaces ==
    UNION { UNION { UNION {
        { <<y, m, d, p>> : p \in 1..Len(Get(Get(Get(editorialsByDate, y), m), d)) } :
            d \in KeySet(Get(Get(editorialsByDate, y), m)) } :
            m \in KeySet(Get(editorialsByDate, y)) } :
            y \in KeySet(editorialsByDate) }

PlacedAt(pl) == Get(Get(Get(editorialsByDate, pl[1]), pl[2]), pl[3])[pl[4]]

C14_GroupingIsOrderedPartition ==
    /\ \A pl \in BucketPlaces : PlacedAt(pl) \in 1..Len(allEditorials)
    /\ \A n \in 1..Len(allEditorials) :
        /\ Cardinality({ pl \in BucketPlaces : PlacedAt(pl) = n }) = 1
        /\ \A pl \in BucketPlaces :
             PlacedAt(pl) = n => DatedOn(allEditorials[n], pl[1], pl[2], pl[3])
    /\ \A pl, pm \in BucketPlaces :
         (pl[1] = pm[1] /\ pl[2] = pm[2] /\ pl[3] = pm[3] /\ pl[4] < pm[4])
             => PlacedAt(pl) < PlacedAt(pm)
    /\ \A y \in KeySet(editorialsByDate) :
         /\ KeySet(Get(editorialsByDate, y)) # {}
         /\ \A m \in KeySet(Get(editorialsByDate, y)) :
              /\ KeySet(Get(Get(editorialsByDate, y), m)) # {}
              /\ \A d \in KeySet(Get(Get(editorialsByDate, y), m)) :
                   Get(Get(Get(editorialsByDate, y), m), d) # <<>>

\* Two editorials of one day have been grouped into one bucket.
C14_Witness ==
    /\ pc = "ready" /\ Len(allEditorials) = 2
    /\ \E pl \in BucketPlaces : pl[4] = 2

(***************************************************************************)
(* C16. The home statistics count the loaded list as it is now. Whenever   *)
(* the pane shows the statistics, total is the number of editorials, read  *)
(* the number with is_read set, unread the number without, and             *)
(* total = read + unread; for an empty list the three are 0 and no year is *)
(* listed. A return to Years through the root crumb leaves the pane        *)
(* showing the statistics of the list as the toggles have left it.         *)
(***************************************************************************)
StatsCountDocuments(pane, docs) ==
    /\ pane.kind = "stats"
    /\ pane.stats.total = Len(docs)
    /\ pane.stats.read = Cardinality({ n \in 1..Len(docs) : docs[n].is_read })
    /\ pane.stats.unread = Cardinality({ n \in 1..Len(docs) : ~docs[n].is_read })
    /\ pane.stats.total = pane.stats.read + pane.stats.unread

C16_StatsOfCurrentList ==
    /\ content.kind = "stats" => StatsCountDocuments(content, allEditorials)
    /\ (content.kind = "stats" /\ allEditorials = <<>>) =>
        /\ content.stats.total = 0 /\ content.stats.read = 0 /\ content.stats.unread = 0
        /\ list = <<>>
    /\ (pc # "fetching" /\ allEditorials = <<>>) => ~HasExplorerItem

C16_StatsOnReturn ==
    [][CrumbStep("years") => StatsCountDocuments(content', allEditorials')]_vars

C16_HomeStatsCountDocuments == []C16_StatsOfCurrentList /\ C16_StatsOnReturn

\* Back at Years after a toggle whose PATCH is still in flight, with an editorial
\* counted as read and one as unread.
C16_Witness ==
    /\ lastEvent = [op |-> "goHome", result |-> "ok"]
    /\ requests # EmptyBag
    /\ content.kind = "stats"
    /\ content.stats.read = 1 /\ content.stats.unread = 1

(***************************************************************************)
(* C17. The per-day metric of the home statistics is 0 when the days       *)
(* available are 0 (they are never negative), the counted exam missing     *)
(* included; otherwise it is the unread count divided by the days          *)
(* available, rounded to one decimal: no tenth is nearer to the quotient.  *)
(* 7 unread over 3 days give 2.3.                                          *)
(***************************************************************************)
\* Twice the distance, in units of 1/(10 * days), between the quotient
\* unread / days and the decimal tenths / 10.
TwiceDistance(unread, days, tenths) ==
    IF 10 * unread >= tenths * days THEN 2 * (10 * unread - tenths * days)
    ELSE 2 * (tenths * days - 10 * unread)

\* prelimsExam ? prelimsExam.daysRemaining : 0, read off the exam list.
DaysAvailable ==
    IF \E i \in 1..Len(futureExams) : futureExams[i].id = PrelimsId
    THEN (CHOOSE e \in { futureExams[i] : i \in 1..Len(futureExams) } :
              e.id = PrelimsId).daysRemaining
    ELSE 0

C17_PerDayMetric ==
    content.kind = "stats" =>
        LET days == content.stats.days
            unread == content.stats.unread
            tenths == content.stats.perDayTenths
        IN /\ days = DaysAvailable
           /\ unread = Cardinality({ n \in 1..Len(allEditorials) : ~allEditorials[n].is_read })
           /\ days <= 0 => tenths = 0
           /\ days > 0 => TwiceDistance(unread, days, tenths) <= days
           /\ (unread = 7 /\ days = 3) => tenths = 23

C17_Witness ==
    /\ content.kind = "stats"
    /\ content.stats.unread = 7 /\ content.stats.days = 3
    /\ content.stats.perDayTenths = 23

\* The metric with no day available and editorials unread.
C17_WitnessNoDays ==
    /\ content.kind = "stats"
    /\ content.stats.unread > 0 /\ content.stats.days = 0
    /\ content.stats.perDayTenths = 0

(***************************************************************************)
(* C18. Once the list has loaded, the item list is exactly the key set of  *)
(* the current level, in order: at years every year, descending; at months *)
(* the months of the year in the order of their first editorial in the     *)
(* loaded list; at dates the days of the month in ascending numeric order, *)
(* each shown as a two-digit number.                                       *)
(***************************************************************************)
\* The position in the loaded list of the first editorial of the year and month.
FirstOfMonth(year, month) ==
    CHOOSE n \in 1..Len(allEditorials) :
        /\ Str(GetFullYear(allEditorials[n].date)) = year
        /\ GetMonthName(allEditorials[n].date) = month
        /\ \A k \in 1..(n - 1) :
             ~(/\ Str(GetFullYear(allEditorials[k].date)) = year
               /\ GetMonthName(allEditorials[k].date) = month)

ListLoaded == lastEvent.op # "init" /\ ~LoadFailed

C18_ListIsOrderedKeySet ==
    ListLoaded =>
        /\ \A i \in 1..Len(list) : list[i].class = "explorer-item"
        /\ currentState.level = "years" =>
            /\ { list[i].year : i \in 1..Len(list) } = KeySet(editorialsByDate)
            /\ \A i, j \in 1..Len(list) :
                 i < j => KeyNum[list[i].year] > KeyNum[list[j].year]
            /\ \A i \in 1..Len(list) : list[i].text = list[i].year
        /\ currentState.level = "months" =>
            /\ { list[i].month : i \in 1..Len(list) }
                   = KeySet(Get(editorialsByDate, currentState.year))
            /\ \A i, j \in 1..Len(list) :
                 i < j => FirstOfMonth(currentState.year, list[i].month)
                              < FirstOfMonth(currentState.year, list[j].month)
            /\ \A i \in 1..Len(list) : list[i].text = list[i].month
        /\ currentState.level = "dates" =>
            /\ { list[i].day : i \in 1..Len(list) }
                   = KeySet(Get(Get(editorialsByDate, currentState.year), currentState.month))
            /\ \A i, j \in 1..Len(list) :
                 i < j => KeyNum[list[i].day] < KeyNum[list[j].day]
            /\ \A i \in 1..Len(list) :
                 list[i].text = IF KeyNum[list[i].day] < 10 THEN "0" \o list[i].day
                                ELSE list[i].day

\* The same, for the behaviours in which the exam list had loaded.
C18_OrderedKeySetWithExams == futureExams # Null => C18_ListIsOrderedKeySet

(***************************************************************************)
(* C19. After every render the breadcrumb is the ancestry of the current   *)
(* state with the current level not clickable: at years the root alone,    *)
(* not clickable; at months of y the clickable root (to years), then y,    *)
(* not clickable; at dates of y and m the clickable root (to years), the   *)
(* clickable y (to months), then m, not clickable.                         *)
(***************************************************************************)
IsClickable(span, label, level) ==
    span.class = "crumb" /\ span.label = label /\ span.level = level

IsCurrent(span, label) == span.class = "crumb-active" /\ span.label = label

\* render() has run: the load settled with a list.
Rendered ==
    /\ lastEvent.op # "init"
    /\ lastEvent.result \notin {"networkError", "notJson", "notAnArray", "httpErrorBody"}

C19_BreadcrumbIsAncestry ==
    Rendered =>
        /\ currentState.level = "years" =>
            /\ Len(breadcrumb) = 1
            /\ IsCurrent(breadcrumb[1], "Editorials")
        /\ currentState.level = "months" =>
            /\ Len(breadcrumb) = 2
            /\ IsClickable(breadcrumb[1], "home", "years")
            /\ IsCurrent(breadcrumb[2], currentState.year)
        /\ currentState.level = "dates" =>
            /\ Len(breadcrumb) = 3
            /\ IsClickable(breadcrumb[1], "home", "years")
            /\ IsClickable(breadcrumb[2], currentState.year, "months")
            /\ IsCurrent(breadcrumb[3], currentState.month)

\* The trail of a month has been rendered.
C19_Witness ==
    /\ currentState.level = "dates" /\ Len(breadcrumb) = 3
    /\ lastEvent = [op |-> "selectMonth", result |-> "ok"]

(***************************************************************************)
(* C20. Navigation has no terminal state: once a list with at least one    *)
(* editorial has loaded, in every state some navigation step can be taken, *)
(* either an item of the list that selects a year or a month, or a         *)
(* clickable crumb.                                                        *)
(***************************************************************************)
SomeNavigationEnabled ==
    \/ \E i \in 1..Len(list) :
         /\ list[i].class = "explorer-item"
         /\ Truthy(list[i].year) \/ Truthy(list[i].month)
    \/ \E j \in 1..Len(breadcrumb) : breadcrumb[j].class = "crumb"

C20_NoTerminalState ==
    (ListLoaded /\ editorialsByDate # <<>>) => SomeNavigationEnabled

\* The same, for the behaviours in which the exam list had loaded.
C20_NoTerminalStateWithExams == futureExams # Null => C20_NoTerminalState

(***************************************************************************)
(* C12. A view handler that met a failure ends with the modal in its error *)
(* state, title Error and the could-not-load message as body, and not with *)
(* a rendered text. The failures: the download-link request rejected,      *)
(* answered with a non-success status, with a body that is not JSON or     *)
(* with one that has no download_url; the file request rejected or         *)
(* answered with a non-success status; a text gray-matter cannot parse.    *)
(***************************************************************************)
ErrorShown(m) ==
    /\ m.title = "Error"
    /\ m.body = "Could not load the editorial content. Please try again."

\* The n-th handler ends in this step, having met a failure.
ViewEndsAfterFailure(n) ==
    \/ \E resp \in LinkResponseChoices :
         /\ LinkSettle(n, resp)
         /\ Len(views') < Len(views)
    \/ \E resp \in FileResponseChoices :
         /\ FileSettle(n, resp)
         /\ \/ views[n].url = Null
            \/ resp.kind = "network"
            \/ ~resp.ok
            \/ resp.text.frontMatter = "malformed"

C12_ViewFailureShowsError ==
    [][\A n \in 1..Len(views) : ViewEndsAfterFailure(n) => ErrorShown(modal')]_vars

\* The failures after which the catch block runs.
ViewThrows(n) ==
    \/ \E resp \in LinkResponseChoices :
         /\ LinkSettle(n, resp)
         /\ resp.kind = "network" \/ resp.body = "malformed"
    \/ \E resp \in FileResponseChoices :
         /\ FileSettle(n, resp)
         /\ resp.kind = "network" \/ resp.text.frontMatter = "malformed"

C12_ThrownFailureShowsError ==
    [][\A n \in 1..Len(views) : ViewThrows(n) => ErrorShown(modal')]_vars

(***************************************************************************)
(* C21. The home statistics are shown at the level years only: once the    *)
(* first render has completed, the pane shows them whenever the level is   *)
(* years, and does not show them while the level is months or dates.       *)
(***************************************************************************)
C21_StatsAtYearsOnly ==
    pc = "ready" =>
        /\ currentState.level = "years" => content.kind = "stats"
        /\ currentState.level \in {"months", "dates"} => content.kind # "stats"

\* The half of it that holds: at years the pane shows the statistics.
C21_StatsAtYears ==
    pc = "ready" => (currentState.level = "years" => content.kind = "stats")

(***************************************************************************)
(* C22. Nothing is sent twice. A step that changes an editorial (a toggle  *)
(* that found its editorial) adds exactly one PATCH request, whose body is *)
(* the editorial's new is_read; no other step adds a PATCH request, and    *)
(* the settling of one, whatever its outcome, removes it and adds none. A  *)
(* view handler has sent one download-link request and at most one file    *)
(* request, the file request only once the link request was answered; a    *)
(* click on View starts one handler, and the settling of a view request,   *)
(* whatever its outcome, starts none.                                      *)
(***************************************************************************)
C22_OneRequestPerView ==
    \A n \in 1..Len(views) :
        /\ views[n].links = 1
        /\ views[n].files = IF views[n].stage = "file" THEN 1 ELSE 0

C22_OnePatchPerToggle ==
    [][/\ allEditorials' # allEditorials /\ pc = "ready" =>
            \E n \in 1..Len(allEditorials) :
                /\ FlipsOnly(n)
                /\ requests' = requests (+) SetToBag({[athenaId |-> allEditorials[n].athena_id,
                                                       is_read |-> allEditorials'[n].is_read]})
       /\ (allEditorials' = allEditorials \/ pc # "ready") =>
            \/ requests' = requests
            \/ \E req \in BagToSet(requests) : requests' = requests (-) SetToBag({req})
       /\ Len(views') > Len(views) =>
            /\ Len(views') = Len(views) + 1
            /\ SubSeq(views', 1, Len(views)) = views
            /\ views'[Len(views')].stage = "link"
       /\ requests' # requests => views' = views
      ]_vars

C22_NoRetry == []C22_OneRequestPerView /\ C22_OnePatchPerToggle

\* A handler waits for its file and the request of the toggle just clicked is
\* in flight.
C22_Witness ==
    /\ \E n \in 1..Len(views) : views[n].stage = "file" /\ views[n].files = 1
    /\ requests # EmptyBag
    /\ lastEvent.op = "toggle"

(***************************************************************************)
(* C23. The processed exam list holds exactly the exams with               *)
(* daysRemaining >= 0 and is sorted by ascending date, so that its first   *)
(* element, the upcoming exam, is the earliest exam that is not past, in   *)
(* whatever order the API lists the exams.                                 *)
(***************************************************************************)
C23_OnlyFutureExams ==
    (lastEvent = [op |-> "fetchExams", result |-> "ok"]) =>
        \A n \in 1..Len(futureExams) :
            /\ futureExams[n].daysRemaining >= 0
            /\ futureExams[n].daysRemaining = DaysRemaining(futureExams[n].date)

C23_UpcomingIsEarliest ==
    (lastEvent = [op |-> "fetchExams", result |-> "ok"]) =>
        /\ C23_OnlyFutureExams
        /\ \A m, n \in 1..Len(futureExams) :
             m < n => futureExams[m].date <= futureExams[n].date
        /\ \A n \in 1..Len(futureExams) : futureExams[1].date <= futureExams[n].date

(***************************************************************************)
(* C24. The modal's visibility changes through two events only: a click on *)
(* a View button shows it, and a click on its backdrop or its close button *)
(* hides it. Any other click on the modal leaves it visible, and the       *)
(* settling of a view handler's request, ending in the text or in the      *)
(* error state, leaves the visibility as it is: a modal closed meanwhile   *)
(* stays hidden.                                                           *)
(***************************************************************************)
ClosingTargets == {"modal-backdrop", "modal-close-btn"}

ViewRequestSettles ==
    \/ \E n \in 1..Len(views), resp \in LinkResponseChoices : LinkSettle(n, resp)
    \/ \E n \in 1..Len(views), resp \in FileResponseChoices : FileSettle(n, resp)

C24_ModalVisibility ==
    [][/\ (~modal.visible /\ modal'.visible) => \E k \in 1..Len(content.items) : ViewClick(k)
       /\ (modal.visible /\ ~modal'.visible) => \E t \in ClosingTargets : ModalClick(t)
       /\ (\E k \in 1..Len(content.items) : ViewClick(k)) => modal'.visible
       /\ (\E t \in ClosingTargets : ModalClick(t)) => ~modal'.visible
       /\ (\E t \in ModalTargets \ ClosingTargets : ModalClick(t)) => modal'.visible
       /\ ViewRequestSettles => modal'.visible = modal.visible
      ]_vars

\* The modal is hidden and holds the result of a handler: it was closed before
\* or after the handler wrote it, and in both cases it is hidden now.
C24_Witness ==
    /\ ~modal.visible
    /\ modal.title # Null /\ modal.title # "Loading..."

(***************************************************************************)
(* C25. A view handler is never cancelled. No step removes or changes a    *)
(* pending handler other than the settling of that handler's own request:  *)
(* a later click on View adds a handler and leaves the earlier ones, and a *)
(* settling leaves the other handlers. Every handler that ends writes the  *)
(* modal when it ends, its text or the error state, whichever handlers are *)
(* still pending and whichever was started last; so the modal shows what   *)
(* the handler that ended last wrote, and it can show the text of one      *)
(* editorial although View was last clicked for another.                   *)
(***************************************************************************)
\* The n-th handler ends in this step and the modal has what it wrote.
ViewEndsWriting(n) ==
    /\ views' = ViewEnded(views, n)
    /\ \/ modal' = ModalError(modal)
       \/ \E resp \in FileResponses(views[n].url) :
            /\ resp.kind = "http"
            /\ modal' = ModalAfterParse(modal, views[n].doc, resp.text)

\* The n-th handler goes on to its file request; the modal is left alone.
ViewGoesOn(n) ==
    /\ views[n].stage = "link"
    /\ \E resp \in LinkResponses(views[n].doc) :
         views' = [views EXCEPT ![n].stage = "file", ![n].url = resp.url, ![n].files = 1]
    /\ modal' = modal

C25_ViewsNeverCancelled ==
    [][/\ (\E k \in 1..Len(content.items) : ViewClick(k)) =>
            SubSeq(views', 1, Len(views)) = views
       /\ ViewRequestSettles => \E n \in 1..Len(views) : ViewEndsWriting(n) \/ ViewGoesOn(n)
       /\ views' # views =>
            \/ \E k \in 1..Len(content.items) : ViewClick(k)
            \/ ViewRequestSettles
      ]_vars

\* View was clicked for e1 and then for e2; both handlers have ended, the one of
\* e1 last: the modal shows the text of e1.
C25_Witness ==
    /\ lastEvent = [op |-> "view", result |-> "ok", doc |-> DocId(2)]
    /\ views = <<>>
    /\ modal.title = DocumentText(DocId(1)).title
    /\ modal.body = MarkedParse(DocumentText(DocId(1)).rest)

(***************************************************************************)
(* C26. Whenever a day item is selected, the content pane shows exactly    *)
(* the editorials of the bucket of the current year, the current month and *)
(* the selected day, in the bucket's order, each with the status text and  *)
(* the toggle label of its is_read as it is now: Read with Mark as Unread, *)
(* Unread with Mark as Read.                                               *)
(***************************************************************************)
ShownAs(item, e) ==
    /\ item.docId = e.id
    /\ item.athenaId = e.athena_id
    /\ e.is_read => item.statusText = "Read" /\ item.toggleText = "Mark as Unread"
    /\ ~e.is_read => item.statusText = "Unread" /\ item.toggleText = "Mark as Read"

C26_PaneShowsSelectedBucket ==
    \A i \in SelectedItems :
        LET bucket == Get(Get(Get(editorialsByDate, currentState.year), currentState.month),
                          list[i].day)
        IN /\ currentState.level = "dates"
           /\ content.kind = "bucket"
           /\ Len(content.items) = Len(bucket)
           /\ \A k \in 1..Len(bucket) : ShownAs(content.items[k], allEditorials[bucket[k]])

\* After a toggle the pane shows the two editorials of the selected day, one read
\* and one unread.
C26_Witness ==
    /\ SelectedItems # {}
    /\ lastEvent.op = "toggle"
    /\ Len(content.items) = 2
    /\ content.items[1].statusText # content.items[2].statusText

(***************************************************************************)
(* C27. When every PATCH request succeeds, then once the server has        *)
(* applied all of them its is_read of each editorial is the page's, in     *)
(* whatever order the requests of repeated toggles arrive.                 *)
(***************************************************************************)
C27_ServerConverges ==
    requests = EmptyBag =>
        \A n \in 1..Len(allEditorials) :
            server[allEditorials[n].athena_id].applied =>
                server[allEditorials[n].athena_id].is_read = allEditorials[n].is_read

====
